---- MODULE Spec2Model ----
(***************************************************************************)
(* State-machine model of the RAG document assistant front end             *)
(* (page.tsx, DocumentManager, DocumentUploader, ChatInterface, the        *)
(* APIClient of lib/api.ts) and of the start.bat / start.ps1 launchers.    *)
(*                                                                         *)
(* File names are sequences of one-character strings so that the           *)
(* extension test of DocumentUploader.handleFile can be computed the way   *)
(* the code computes it.  The JavaScript value undefined is None.          *)
(***************************************************************************)
EXTENDS Integers, Sequences, FiniteSets, TLC

VARIABLES
    \* ---- server ----
    serverDocs,        \* file names indexed on the backend
    \* ---- Home (page.tsx) ----
    selectedDocument,  \* useState<string | undefined>()
    showUploader,      \* useState(false)
    refreshKey,        \* useState(0); key of DocumentManager
    \* ---- DocumentManager, the mounted instance ----
    documents,         \* useState<DocumentInfo[]>([])
    loading,           \* useState(true)
    selectedDoc,       \* useState<string | undefined>()
    listCalls,         \* loadDocuments() calls awaiting listDocuments
    deletes,           \* handleDelete() calls in progress
    \* ---- DocumentUploader, the mounted instance ----
    uploading,         \* useState(false)
    uploadStatus,      \* uploadStatus.type: "null" | "success" | "error"
    uploadsInFlight,   \* handleFile() calls awaiting uploadDocument
    pendingTimers,     \* setTimeout(() => onUploadSuccess(), 1500) not yet fired
    uploadsStarted,    \* number of upload requests sent
    uploadsSucceeded,  \* number of upload requests answered ok
    \* ---- ChatInterface ----
    messages,          \* useState<Message[]>([])
    input,             \* useState('')
    isLoading,         \* useState(false)
    fullAnswer,        \* local of handleSubmit
    sources,           \* local of handleSubmit
    received,          \* events yielded by queryStream to the running handleSubmit
    streamEnd,         \* how the last handleSubmit ended, and the error caught
    sentQueries,       \* requests handed to apiClient.queryStream
    \* ---- APIClient (lib/api.ts), one caller ----
    apiPhase,          \* "idle" | "fetching" | "reading" | "settled"
    apiMethod,         \* the method being called
    apiArg,            \* the filename passed to deleteDocument
    apiResponse,       \* the Response fetch resolved with, NoResponse before
    apiOutcome,        \* what the call did: returned, threw, or nothing yet
    apiYielded,        \* the objects queryStream has yielded
    apiBody,           \* the part of the response body not read yet
    apiBuffer,         \* local 'buffer' of queryStream
    httpLog,           \* the HTTP requests sent through fetch
    \* ---- start.bat / start.ps1, one run ----
    script,            \* which launcher runs: "bat" | "ps1"
    sameDir,           \* the current directory is the script's directory
    fs,                \* the files and directories that exist
    scriptPc,          \* the statement the launcher is at
    launched,          \* the server windows opened so far, in order
    waited,            \* seconds slept since the backend was launched
    printed,           \* the kinds of message written so far
    exitCode           \* "running", or the exit code: "0" | "1"

uiVars == <<serverDocs, selectedDocument, showUploader, refreshKey, documents,
            loading, selectedDoc, listCalls, deletes, uploading, uploadStatus,
            uploadsInFlight, pendingTimers, uploadsStarted, uploadsSucceeded>>

chatVars == <<messages, input, isLoading, fullAnswer, sources, received,
              streamEnd, sentQueries>>

apiVars == <<apiPhase, apiMethod, apiArg, apiResponse, apiOutcome, apiYielded, apiBody,
             apiBuffer, httpLog>>

scriptVars == <<script, sameDir, fs, scriptPc, launched, waited, printed, exitCode>>

vars == <<uiVars, chatVars, apiVars, scriptVars>>

-----------------------------------------------------------------------------
(* Bounds *)

MaxUploads == 2
MaxPageUploads == 1
MaxDeletes == 1
MaxQueries == 2
MaxEvents == 2
MaxCalls == 2

-----------------------------------------------------------------------------
(* Values *)

None == <<>>

A_PDF      == <<"a", ".", "p", "d", "f">>
B_MD       == <<"b", ".", "m", "d">>
C_UPPER    == <<"c", ".", "T", "X", "T">>
X_EXE      == <<"x", ".", "e", "x", "e">>
TXT_EXE    == <<"a", ".", "t", "x", "t", ".", "e", "x", "e">>
NODOT_PDF  == <<"p", "d", "f">>
NODOT_BIN  == <<"b", "i", "n">>
TRAIL_DOT  == <<"a", ".">>

InitDocs == {A_PDF, B_MD}

UploadNames == {C_UPPER, X_EXE, TXT_EXE, NODOT_PDF, NODOT_BIN, TRAIL_DOT}

-----------------------------------------------------------------------------
(* DocumentUploader.handleFile: the extension test *)

\* String.prototype.toLowerCase, one character
LowerChar(c) ==
    CASE c = "P" -> "p" [] c = "D" -> "d" [] c = "F" -> "f"
      [] c = "T" -> "t" [] c = "X" -> "x" [] c = "M" -> "m"
      [] OTHER -> c

toLowerCase(s) == [i \in 1..Len(s) |-> LowerChar(s[i])]

\* index of the last '.' of s, 0 when s holds none
RECURSIVE LastDot(_, _)
LastDot(s, i) ==
    IF i = 0 THEN 0
    ELSE IF s[i] = "." THEN i ELSE LastDot(s, i - 1)

\* name.split('.').pop(): the text after the last '.', the whole name when
\* the name holds no '.'
SplitPop(s) == SubSeq(s, LastDot(s, Len(s)) + 1, Len(s))

validExtensions ==
    { <<".", "p", "d", "f">>, <<".", "d", "o", "c", "x">>, <<".", "d", "o", "c">>,
      <<".", "m", "d">>, <<".", "m", "a", "r", "k", "d", "o", "w", "n">>,
      <<".", "t", "x", "t">> }

\* name.split('.')[1]: the text between the first '.' and the second
RECURSIVE UpToDot(_)
UpToDot(s) ==
    IF s = <<>> \/ Head(s) = "." THEN <<>> ELSE <<Head(s)>> \o UpToDot(Tail(s))

RECURSIVE AfterFirstDot(_)
AfterFirstDot(s) ==
    IF s = <<>> THEN <<>>
    ELSE IF Head(s) = "." THEN UpToDot(Tail(s)) ELSE AfterFirstDot(Tail(s))

fileExtFirstDot(name) == <<".">> \o toLowerCase(AfterFirstDot(name))

fileExt(name) == <<".">> \o toLowerCase(SplitPop(name))

-----------------------------------------------------------------------------
(* Initial state: the page after its first render.  DocumentManager has    *)
(* mounted, its useEffect has called loadDocuments().                      *)

UIInit ==
    /\ serverDocs = InitDocs
    /\ selectedDocument = None
    /\ showUploader = FALSE
    /\ refreshKey = 0
    /\ documents = {}
    /\ loading = TRUE
    /\ selectedDoc = None
    /\ listCalls = {[inst |-> 0]}
    /\ deletes = {}
    /\ uploading = FALSE
    /\ uploadStatus = "null"
    /\ uploadsInFlight = {}
    /\ pendingTimers = 0
    /\ uploadsStarted = 0
    /\ uploadsSucceeded = 0

ChatInit ==
    /\ messages = <<>>
    /\ input = <<>>
    /\ isLoading = FALSE
    /\ fullAnswer = <<>>
    /\ sources = <<>>
    /\ received = <<>>
    /\ streamEnd = [kind |-> "none", message |-> <<>>]
    /\ sentQueries = <<>>

NoResponse ==
    [status |-> "none", valid |-> FALSE, detail |-> "", hasBody |-> FALSE,
     body |-> <<>>]

Pending == [kind |-> "pending", value |-> <<>>]

ApiInit ==
    /\ apiPhase = "idle"
    /\ apiMethod = "none"
    /\ apiArg = None
    /\ apiResponse = NoResponse
    /\ apiOutcome = Pending
    /\ apiYielded = <<>>
    /\ apiBody = <<>>
    /\ apiBuffer = <<>>
    /\ httpLog = <<>>

\* paths the launchers test: in the script's directory (the rag-system
\* directory) and, for start.bat's relative paths, in the current directory
Paths ==
    [dir : {"script"}, file : {".env", "activate.bat", "Activate.ps1", "node_modules"}]
      \cup [dir : {"cwd"}, file : {".env", "activate.bat"}]

\* a launcher is started: by double click (the current directory is the
\* script's) or from a shell in any directory
ScriptInit ==
    /\ script \in {"bat", "ps1"}
    /\ sameDir \in BOOLEAN
    /\ fs \in SUBSET Paths
    /\ sameDir => \A p \in fs : p.dir = "script"
    /\ scriptPc = "checkEnv"
    /\ launched = <<>>
    /\ waited = 0
    /\ printed = {}
    /\ exitCode = "running"

\* a run of the page with the launchers idle
ScriptIdle ==
    /\ script = "bat"
    /\ sameDir = TRUE
    /\ fs = {}
    /\ scriptPc = "checkEnv"
    /\ launched = <<>>
    /\ waited = 0
    /\ printed = {}
    /\ exitCode = "running"

Init == UIInit /\ ChatInit /\ ApiInit /\ ScriptIdle

LaunchInit == UIInit /\ ChatInit /\ ApiInit /\ ScriptInit

-----------------------------------------------------------------------------
(* DocumentManager *)

\* A fresh DocumentManager instance is mounted under key k: its state is the
\* useState defaults and its useEffect calls loadDocuments().
MountDocumentManager(k) ==
    /\ documents' = {}
    /\ loading' = TRUE
    /\ selectedDoc' = None
    /\ listCalls' = listCalls \cup {[inst |-> k]}

\* The Refresh button: loadDocuments() up to its await.
ClickRefresh ==
    /\ [inst |-> refreshKey] \notin listCalls
    /\ loading' = TRUE
    /\ listCalls' = listCalls \cup {[inst |-> refreshKey]}
    /\ UNCHANGED <<serverDocs, selectedDocument, showUploader, refreshKey,
                   documents, selectedDoc, deletes, uploading, uploadStatus,
                   uploadsInFlight, pendingTimers, uploadsStarted,
                   uploadsSucceeded>>
    /\ UNCHANGED <<chatVars, apiVars, scriptVars>>

\* loadDocuments() after its await: listDocuments() resolved (ok) or threw.
\* State setters of an instance that is no longer mounted do nothing.
ListResponse(c, ok) ==
    /\ c \in listCalls
    /\ listCalls' = listCalls \ {c}
    /\ IF c.inst = refreshKey
       THEN /\ documents' = IF ok THEN serverDocs ELSE documents
            /\ loading' = FALSE
       ELSE UNCHANGED <<documents, loading>>
    /\ UNCHANGED <<serverDocs, selectedDocument, showUploader, refreshKey,
                   selectedDoc, deletes, uploading, uploadStatus,
                   uploadsInFlight, pendingTimers, uploadsStarted,
                   uploadsSucceeded>>
    /\ UNCHANGED <<chatVars, apiVars, scriptVars>>

handleSelectPassesFilename(filename) ==
    /\ ~loading
    /\ filename \in documents
    /\ LET newSelection == IF selectedDoc = filename THEN None ELSE filename
       IN /\ selectedDoc' = newSelection
          /\ selectedDocument' = filename
    /\ UNCHANGED <<serverDocs, showUploader, refreshKey, documents, loading,
                   listCalls, deletes, uploading, uploadStatus,
                   uploadsInFlight, pendingTimers, uploadsStarted,
                   uploadsSucceeded>>
    /\ UNCHANGED <<chatVars, apiVars, scriptVars>>

\* handleSelect(filename), with onDocumentSelect = setSelectedDocument
handleSelect(filename) ==
    /\ ~loading
    /\ filename \in documents
    /\ LET newSelection == IF selectedDoc = filename THEN None ELSE filename
       IN /\ selectedDoc' = newSelection
          /\ selectedDocument' = newSelection
    /\ UNCHANGED <<serverDocs, showUploader, refreshKey, documents, loading,
                   listCalls, deletes, uploading, uploadStatus,
                   uploadsInFlight, pendingTimers, uploadsStarted,
                   uploadsSucceeded>>
    /\ UNCHANGED <<chatVars, apiVars, scriptVars>>

\* handleDelete(filename) up to its first await, the confirm() accepted.
\* The closure keeps the selectedDoc of the render that created it.
handleDelete(filename) ==
    /\ ~loading
    /\ filename \in documents
    /\ LET d == [inst |-> refreshKey, file |-> filename, sel |-> selectedDoc,
                 phase |-> "deleting"]
       IN /\ \A e \in deletes : e.inst # refreshKey \/ e.file # filename
          /\ deletes' = deletes \cup {d}
    /\ UNCHANGED <<serverDocs, selectedDocument, showUploader, refreshKey,
                   documents, loading, selectedDoc, listCalls, uploading,
                   uploadStatus, uploadsInFlight, pendingTimers,
                   uploadsStarted, uploadsSucceeded>>
    /\ UNCHANGED <<chatVars, apiVars, scriptVars>>

\* handleDelete after await apiClient.deleteDocument(filename): resolved (ok),
\* and loadDocuments() runs up to its await; or it threw and alert() shows.
DeleteResponse(d, ok) ==
    /\ d \in deletes
    /\ d.phase = "deleting"
    /\ ok => d.file \in serverDocs
    /\ IF ok
       THEN /\ serverDocs' = serverDocs \ {d.file}
            /\ deletes' = (deletes \ {d}) \cup {[d EXCEPT !.phase = "reloading"]}
            /\ loading' = IF d.inst = refreshKey THEN TRUE ELSE loading
       ELSE /\ deletes' = deletes \ {d}
            /\ UNCHANGED <<serverDocs, loading>>
    /\ UNCHANGED <<selectedDocument, showUploader, refreshKey, documents,
                   selectedDoc, listCalls, uploading, uploadStatus,
                   uploadsInFlight, pendingTimers, uploadsStarted,
                   uploadsSucceeded>>
    /\ UNCHANGED <<chatVars, apiVars, scriptVars>>

\* handleDelete after await loadDocuments(): the list is reloaded (or the
\* reload failed and was logged), then the selection is cleared when the
\* closure's selectedDoc is the deleted file.
DeleteFinish(d, ok) ==
    /\ d \in deletes
    /\ d.phase = "reloading"
    /\ deletes' = deletes \ {d}
    /\ IF d.inst = refreshKey
       THEN /\ documents' = IF ok THEN serverDocs ELSE documents
            /\ loading' = FALSE
       ELSE UNCHANGED <<documents, loading>>
    /\ IF d.sel = d.file
       THEN /\ selectedDoc' = IF d.inst = refreshKey THEN None ELSE selectedDoc
            /\ selectedDocument' = None
       ELSE UNCHANGED <<selectedDoc, selectedDocument>>
    /\ UNCHANGED <<serverDocs, showUploader, refreshKey, listCalls, uploading,
                   uploadStatus, uploadsInFlight, pendingTimers,
                   uploadsStarted, uploadsSucceeded>>
    /\ UNCHANGED <<chatVars, apiVars, scriptVars>>

-----------------------------------------------------------------------------
(* DocumentUploader and Home *)

\* The DocumentUploader instance is unmounted: its state is dropped and the
\* setters of its running handleFile calls do nothing from now on.
UnmountUploader ==
    /\ uploading' = FALSE
    /\ uploadStatus' = "null"
    /\ uploadsInFlight' = {[u EXCEPT !.live = FALSE] : u \in uploadsInFlight}

\* The header button: setShowUploader(!showUploader)
ToggleUploader ==
    /\ showUploader' = ~showUploader
    /\ IF showUploader
       THEN UnmountUploader
       ELSE UNCHANGED <<uploading, uploadStatus, uploadsInFlight>>
    /\ UNCHANGED <<serverDocs, selectedDocument, refreshKey, documents,
                   loading, selectedDoc, listCalls, deletes, pendingTimers,
                   uploadsStarted, uploadsSucceeded>>
    /\ UNCHANGED <<chatVars, apiVars, scriptVars>>

\* handleFile(file) up to its await.  via = "input" is handleFileInput (the
\* input element is disabled while uploading), via = "drop" is handleDrop.
handleFile(file, via) ==
    /\ showUploader
    /\ via = "input" => ~uploading
    /\ IF fileExt(file) \notin validExtensions
       THEN /\ uploadStatus' = "error"
            /\ UNCHANGED <<uploading, uploadsInFlight, uploadsStarted>>
       ELSE /\ uploading' = TRUE
            /\ uploadStatus' = "null"
            /\ uploadsInFlight' = uploadsInFlight
                 \cup {[id |-> uploadsStarted + 1, file |-> file, live |-> TRUE]}
            /\ uploadsStarted' = uploadsStarted + 1
    /\ UNCHANGED <<serverDocs, selectedDocument, showUploader, refreshKey,
                   documents, loading, selectedDoc, listCalls, deletes,
                   pendingTimers, uploadsSucceeded>>
    /\ UNCHANGED <<chatVars, apiVars, scriptVars>>

\* handleFile after await apiClient.uploadDocument(file): resolved (ok) or
\* threw; then the finally block.
UploadResponse(u, ok) ==
    /\ u \in uploadsInFlight
    /\ uploadsInFlight' = uploadsInFlight \ {u}
    /\ IF ok
       THEN /\ serverDocs' = serverDocs \cup {u.file}
            /\ uploadStatus' = IF u.live THEN "success" ELSE uploadStatus
            /\ pendingTimers' = pendingTimers + 1
            /\ uploadsSucceeded' = uploadsSucceeded + 1
       ELSE /\ uploadStatus' = IF u.live THEN "error" ELSE uploadStatus
            /\ UNCHANGED <<serverDocs, pendingTimers, uploadsSucceeded>>
    /\ uploading' = IF u.live THEN FALSE ELSE uploading
    /\ UNCHANGED <<selectedDocument, showUploader, refreshKey, documents,
                   loading, selectedDoc, listCalls, deletes, uploadsStarted>>
    /\ UNCHANGED <<chatVars, apiVars, scriptVars>>

handleUploadSuccessNoRemount ==
    /\ showUploader' = FALSE
    /\ refreshKey' = refreshKey
    /\ IF showUploader
       THEN UnmountUploader
       ELSE UNCHANGED <<uploading, uploadStatus, uploadsInFlight>>
    /\ UNCHANGED <<documents, loading, selectedDoc, listCalls>>

\* Home.handleUploadSuccess and the render that follows it: the uploader
\* panel goes away and DocumentManager is remounted under the new key.
handleUploadSuccess ==
    /\ showUploader' = FALSE
    /\ refreshKey' = refreshKey + 1
    /\ IF showUploader
       THEN UnmountUploader
       ELSE UNCHANGED <<uploading, uploadStatus, uploadsInFlight>>
    /\ MountDocumentManager(refreshKey + 1)

\* The 1500 ms timer set by a successful upload fires.
TimerFire ==
    /\ pendingTimers > 0
    /\ pendingTimers' = pendingTimers - 1
    /\ handleUploadSuccess
    /\ UNCHANGED <<serverDocs, selectedDocument, deletes, uploadsStarted,
                   uploadsSucceeded>>
    /\ UNCHANGED <<chatVars, apiVars, scriptVars>>

-----------------------------------------------------------------------------
(* ChatInterface *)

\* what the user can type into the input box
Inputs == {<<>>, <<" ">>, <<"h">>, <<" ", "h", " ">>}

\* String.prototype.trim
RECURSIVE TrimLeft(_)
TrimLeft(s) ==
    IF s # <<>> /\ Head(s) = " " THEN TrimLeft(Tail(s)) ELSE s

RECURSIVE TrimRight(_)
TrimRight(s) ==
    IF s # <<>> /\ s[Len(s)] = " " THEN TrimRight(SubSeq(s, 1, Len(s) - 1)) ELSE s

trim(s) == TrimRight(TrimLeft(s))

\* the objects queryStream can yield (JSON.parse of a 'data: ' line)
SourceLists == {<<"s1", "s2">>}
ChunkTexts == {<<"a">>, <<"b">>}
ErrorTexts == {<<"boom">>}

Events ==
    [type : {"sources"}, payload : SourceLists]
      \cup [type : {"chunk"}, payload : ChunkTexts]
      \cup [type : {"error"}, payload : ErrorTexts]
      \cup [type : {"done"}, payload : {<<>>}]

\* the errors queryStream can throw instead of yielding: fetch rejects, the
\* response is not ok, JSON.parse rejects a 'data: ' line
Throws ==
    { [kind |-> "fetch", message |-> <<"Failed to fetch">>],
      [kind |-> "notok", message |-> <<"Query failed">>],
      [kind |-> "parse", message |-> <<"Unexpected token">>] }

UserMessage(text) == [role |-> "user", content |-> text, sources |-> <<>>]

AssistantMessage(text, srcs) ==
    [role |-> "assistant", content |-> text, sources |-> srcs]

ReplaceBeforeLast(prev, answer, srcs) ==
    [prev EXCEPT ![Len(prev) - 1] = AssistantMessage(answer, srcs)]

\* the setMessages updater of the 'chunk' branch
ReplaceLast(prev, answer, srcs) ==
    [prev EXCEPT ![Len(prev)] = AssistantMessage(answer, srcs)]

\* the text of the template `<warning sign> Error: ${error.message}`
ErrorText(message) == <<"[warning sign] Error: ">> \o message

ReplaceLastTwoByError(prev, message) ==
    SubSeq(prev, 1, Len(prev) - 2) \o <<AssistantMessage(ErrorText(message), <<>>)>>

\* the setMessages updater of the catch block
ReplaceLastByError(prev, message) ==
    SubSeq(prev, 1, Len(prev) - 1) \o <<AssistantMessage(ErrorText(message), <<>>)>>

\* onChange of the input box: setInput(e.target.value)
TypeInput(v) ==
    /\ ~isLoading
    /\ v # input
    /\ input' = v
    /\ UNCHANGED <<messages, isLoading, fullAnswer, sources, received,
                   streamEnd, sentQueries>>
    /\ UNCHANGED <<uiVars, apiVars, scriptVars>>

handleSubmitUnguarded ==
    /\ Len(sentQueries) < MaxQueries
    /\ messages' = messages \o <<UserMessage(input), AssistantMessage(<<>>, <<>>)>>
    /\ input' = <<>>
    /\ isLoading' = TRUE
    /\ fullAnswer' = <<>>
    /\ sources' = <<>>
    /\ received' = <<>>
    /\ streamEnd' = [kind |-> "none", message |-> <<>>]
    /\ sentQueries' = Append(sentQueries,
                             [query |-> input, top_k |-> 5,
                              filename |-> selectedDocument,
                              highlighted |-> selectedDoc])
    /\ UNCHANGED <<uiVars, apiVars, scriptVars>>

\* handleSubmit up to its first await (the first next() of the generator)
handleSubmit ==
    /\ ~(trim(input) = <<>> \/ isLoading)
    /\ Len(sentQueries) < MaxQueries
    /\ messages' = messages \o <<UserMessage(input), AssistantMessage(<<>>, <<>>)>>
    /\ input' = <<>>
    /\ isLoading' = TRUE
    /\ fullAnswer' = <<>>
    /\ sources' = <<>>
    /\ received' = <<>>
    /\ streamEnd' = [kind |-> "none", message |-> <<>>]
    /\ sentQueries' = Append(sentQueries,
                             [query |-> input, top_k |-> 5,
                              filename |-> selectedDocument,
                              highlighted |-> selectedDoc])
    /\ UNCHANGED <<uiVars, apiVars, scriptVars>>

\* the catch and finally blocks of handleSubmit
Catch(message) ==
    /\ messages' = ReplaceLastByError(messages, message)
    /\ isLoading' = FALSE
    /\ streamEnd' = [kind |-> "error", message |-> message]

\* one iteration of 'for await (const data of streamGen)'
StreamEvent(data) ==
    /\ isLoading
    /\ Len(received) < MaxEvents
    /\ received' = Append(received, data)
    /\ IF data.type = "sources"
       THEN /\ sources' = data.payload
            /\ UNCHANGED <<messages, fullAnswer, isLoading, streamEnd>>
       ELSE IF data.type = "chunk"
       THEN /\ fullAnswer' = fullAnswer \o data.payload
            /\ messages' = ReplaceLast(messages, fullAnswer \o data.payload, sources)
            /\ UNCHANGED <<sources, isLoading, streamEnd>>
       ELSE IF data.type = "error"
       THEN /\ Catch(data.payload)
            /\ UNCHANGED <<fullAnswer, sources>>
       ELSE UNCHANGED <<messages, fullAnswer, sources, isLoading, streamEnd>>
    /\ UNCHANGED <<input, sentQueries>>
    /\ UNCHANGED <<uiVars, apiVars, scriptVars>>

\* the generator returns (reader.read() reports done): the finally block
StreamDone ==
    /\ isLoading
    /\ isLoading' = FALSE
    /\ streamEnd' = [kind |-> "done", message |-> <<>>]
    /\ UNCHANGED <<messages, input, fullAnswer, sources, received, sentQueries>>
    /\ UNCHANGED <<uiVars, apiVars, scriptVars>>

\* the generator throws.  fetch rejecting and a response that is not ok
\* happen before the first event; a line that is not JSON at any point.
StreamThrow(t) ==
    /\ isLoading
    /\ t.kind \in {"fetch", "notok"} => received = <<>>
    /\ Catch(t.message)
    /\ UNCHANGED <<input, fullAnswer, sources, received, sentQueries>>
    /\ UNCHANGED <<uiVars, apiVars, scriptVars>>

-----------------------------------------------------------------------------
(* APIClient *)

Methods == {"uploadDocument", "query", "queryStream", "listDocuments",
            "deleteDocument", "healthCheck"}

\* the fallback of 'error.detail || ...' in each method
DefaultMessage(m) ==
    CASE m = "uploadDocument" -> "Upload failed"
      [] m = "query" -> "Query failed"
      [] m = "queryStream" -> "Query failed"
      [] m = "listDocuments" -> "Failed to list documents"
      [] m = "deleteDocument" -> "Failed to delete document"
      [] OTHER -> ""

ChecksOkButList(m) == m \in Methods \ {"healthCheck", "listDocuments"}

\* the methods that test response.ok
ChecksOk(m) == m \in Methods \ {"healthCheck"}

\* encodeURIComponent, one character
EncodeChar(c) ==
    CASE c = " " -> "%20" [] c = "/" -> "%2F" [] c = "?" -> "%3F"
      [] c = "%" -> "%25"
      [] OTHER -> c

encodeURIComponent(name) == [i \in 1..Len(name) |-> EncodeChar(name[i])]

\* the request each method passes to fetch
Request(m, filename) ==
    CASE m = "uploadDocument" -> [verb |-> "POST", path |-> <<"/upload">>]
      [] m = "query" -> [verb |-> "POST", path |-> <<"/query">>]
      [] m = "queryStream" -> [verb |-> "POST", path |-> <<"/query/stream">>]
      [] m = "listDocuments" -> [verb |-> "GET", path |-> <<"/documents">>]
      [] m = "deleteDocument" ->
            [verb |-> "DELETE",
             path |-> <<"/documents/">> \o encodeURIComponent(filename)]
      [] OTHER -> [verb |-> "GET", path |-> <<"/">>]

\* file names a caller may pass to deleteDocument
DeleteArgs == {A_PDF, <<"m", "y", " ", "f">>, <<"a", "/", "b">>, <<"5", "%", "?">>}

\* JSON bodies of a response: not JSON at all, or an object whose detail
\* member is missing, empty or a text
Undefined == "<undefined>"

JsonBodies ==
    [valid : {FALSE}, detail : {Undefined}]
      \cup [valid : {TRUE}, detail : {Undefined, "", "No such document"}]

\* JavaScript truthiness of a string or undefined
Truthy(x) == x # Undefined /\ x # ""

\* error.detail || fallback
DetailOr(detail, fallback) == IF Truthy(detail) THEN detail ELSE fallback

Threw(message) == [kind |-> "threw", value |-> <<message>>]

Returned(value) == [kind |-> "returned", value |-> value]

\* bodies of a /query/stream response, as characters
NL == "\n"

DataPrefix == <<"d", "a", "t", "a", ":", " ">>

StreamBodies ==
    { <<>>,
      DataPrefix \o <<"J", NL>>,
      DataPrefix \o <<"J", NL>> \o DataPrefix \o <<"K", NL>>,
      <<":", NL>> \o DataPrefix \o <<"K", NL, NL>>,
      DataPrefix \o <<"J", NL>> \o DataPrefix \o <<"!", NL>>,
      DataPrefix \o <<"J", NL>> \o DataPrefix \o <<"K">> }

\* String.prototype.split('\n'): the pieces between the newlines of s
RECURSIVE SplitNL(_, _)
SplitNL(s, piece) ==
    IF s = <<>> THEN <<piece>>
    ELSE IF Head(s) = NL THEN <<piece>> \o SplitNL(Tail(s), <<>>)
    ELSE SplitNL(Tail(s), Append(piece, Head(s)))

\* line.startsWith('data: ')
StartsWithData(line) ==
    Len(line) >= Len(DataPrefix) /\ SubSeq(line, 1, Len(DataPrefix)) = DataPrefix

\* JSON.parse accepts the one-character texts J and K
IsJSON(text) == Len(text) = 1 /\ text[1] \in {"J", "K"}

\* the 'for (const line of lines)' loop: the objects yielded before the loop
\* ends or JSON.parse throws
RECURSIVE YieldLines(_)
YieldLines(lines) ==
    IF lines = <<>> THEN [yielded |-> <<>>, threw |-> FALSE]
    ELSE IF ~StartsWithData(Head(lines)) THEN YieldLines(Tail(lines))
    ELSE LET text == SubSeq(Head(lines), Len(DataPrefix) + 1, Len(Head(lines)))
         IN IF ~IsJSON(text) THEN [yielded |-> <<>>, threw |-> TRUE]
            ELSE LET rest == YieldLines(Tail(lines))
                 IN [yielded |-> <<text[1]>> \o rest.yielded, threw |-> rest.threw]

\* a method is called: it calls fetch once and awaits the response
ApiCall(m, filename) ==
    /\ apiPhase \in {"idle", "settled"}
    /\ Len(httpLog) < MaxCalls
    /\ apiPhase' = "fetching"
    /\ apiMethod' = m
    /\ apiArg' = IF m = "deleteDocument" THEN filename ELSE None
    /\ apiResponse' = NoResponse
    /\ apiOutcome' = Pending
    /\ apiYielded' = <<>>
    /\ apiBody' = <<>>
    /\ apiBuffer' = <<>>
    /\ httpLog' = Append(httpLog, Request(m, filename))
    /\ UNCHANGED <<uiVars, chatVars, scriptVars>>

FetchRejectRetry ==
    /\ apiPhase = "fetching"
    /\ Len(httpLog) <= MaxCalls
    /\ httpLog' = Append(httpLog, httpLog[Len(httpLog)])
    /\ UNCHANGED <<apiPhase, apiMethod, apiArg, apiResponse, apiOutcome,
                   apiYielded, apiBody, apiBuffer>>
    /\ UNCHANGED <<uiVars, chatVars, scriptVars>>

\* fetch rejects (the network is down)
FetchReject ==
    /\ apiPhase = "fetching"
    /\ apiPhase' = "settled"
    /\ apiOutcome' = Threw("Failed to fetch")
    /\ UNCHANGED <<apiMethod, apiArg, apiResponse, apiYielded, apiBody, apiBuffer,
                   httpLog>>
    /\ UNCHANGED <<uiVars, chatVars, scriptVars>>

\* what a method does with a response, up to its return, throw, or (for
\* queryStream) the start of the read loop
AfterFetch(m, ok, json, hasBody) ==
    IF ChecksOk(m) /\ ~ok
    THEN IF json.valid
         THEN Threw(DetailOr(json.detail, DefaultMessage(m)))
         ELSE Threw("Unexpected token")
    ELSE IF m = "queryStream"
    THEN IF hasBody THEN Pending ELSE Threw("No response body")
    ELSE IF json.valid
         THEN Returned(<<json.detail>>)
         ELSE Threw("Unexpected token")

\* fetch resolves with a response
FetchResolve(ok, json, hasBody, stream) ==
    /\ apiPhase = "fetching"
    /\ apiResponse' = [status |-> IF ok THEN "ok" ELSE "notok",
                       valid |-> json.valid, detail |-> json.detail,
                       hasBody |-> hasBody,
                       body |-> IF AfterFetch(apiMethod, ok, json, hasBody) = Pending
                                THEN stream ELSE <<>>]
    /\ apiOutcome' = AfterFetch(apiMethod, ok, json, hasBody)
    /\ IF AfterFetch(apiMethod, ok, json, hasBody) = Pending
       THEN /\ apiPhase' = "reading"
            /\ apiBody' = stream
       ELSE /\ apiPhase' = "settled"
            /\ apiBody' = <<>>
    /\ UNCHANGED <<apiMethod, apiArg, apiYielded, apiBuffer, httpLog>>
    /\ UNCHANGED <<uiVars, chatVars, scriptVars>>

ReadChunkNoBuffer(n) ==
    /\ apiPhase = "reading"
    /\ n \in 1..Len(apiBody)
    /\ LET pieces == SplitNL(apiBuffer \o SubSeq(apiBody, 1, n), <<>>)
           lines == SubSeq(pieces, 1, Len(pieces) - 1)
           out == YieldLines(lines)
       IN /\ apiBuffer' = <<>>
          /\ apiYielded' = apiYielded \o out.yielded
          /\ IF out.threw
             THEN /\ apiPhase' = "settled"
                  /\ apiOutcome' = Threw("Unexpected token")
             ELSE UNCHANGED <<apiPhase, apiOutcome>>
    /\ apiBody' = SubSeq(apiBody, n + 1, Len(apiBody))
    /\ UNCHANGED <<apiMethod, apiArg, apiResponse, httpLog>>
    /\ UNCHANGED <<uiVars, chatVars, scriptVars>>

\* one pass of the while loop of queryStream: reader.read() delivers the next
\* n characters of the body
ReadChunk(n) ==
    /\ apiPhase = "reading"
    /\ n \in 1..Len(apiBody)
    /\ LET pieces == SplitNL(apiBuffer \o SubSeq(apiBody, 1, n), <<>>)
           lines == SubSeq(pieces, 1, Len(pieces) - 1)
           out == YieldLines(lines)
       IN /\ apiBuffer' = pieces[Len(pieces)]
          /\ apiYielded' = apiYielded \o out.yielded
          /\ IF out.threw
             THEN /\ apiPhase' = "settled"
                  /\ apiOutcome' = Threw("Unexpected token")
             ELSE UNCHANGED <<apiPhase, apiOutcome>>
    /\ apiBody' = SubSeq(apiBody, n + 1, Len(apiBody))
    /\ UNCHANGED <<apiMethod, apiArg, apiResponse, httpLog>>
    /\ UNCHANGED <<uiVars, chatVars, scriptVars>>

\* reader.read() reports done: the loop breaks and the generator returns
ReadDone ==
    /\ apiPhase = "reading"
    /\ apiBody = <<>>
    /\ apiPhase' = "settled"
    /\ apiOutcome' = Returned(<<>>)
    /\ UNCHANGED <<apiMethod, apiArg, apiResponse, apiYielded, apiBody, apiBuffer,
                   httpLog>>
    /\ UNCHANGED <<uiVars, chatVars, scriptVars>>

-----------------------------------------------------------------------------
(* start.bat and start.ps1 *)

WaitSeconds == 3

\* the directory a test resolves against: start.ps1 prefixes $scriptPath,
\* start.bat uses paths relative to the current directory
TestDir(sc) ==
    IF sc = "ps1" THEN "script"
    ELSE IF sameDir THEN "script" ELSE "cwd"

\* the activation script each launcher tests for
ActivationScript(sc) == IF sc = "ps1" THEN "Activate.ps1" ELSE "activate.bat"

\* 'if not exist' / Test-Path
Exists(dir, file) == [dir |-> dir, file |-> file] \in fs

\* echo ERROR ... / pause / exit 1
ExitWithError(kind) ==
    /\ printed' = printed \cup {kind}
    /\ exitCode' = "1"
    /\ scriptPc' = "exited"

\* Check if .env file exists
CheckEnv ==
    /\ scriptPc = "checkEnv"
    /\ IF ~Exists(TestDir(script), ".env")
       THEN ExitWithError("ERROR .env")
       ELSE /\ scriptPc' = "checkVenv"
            /\ UNCHANGED <<printed, exitCode>>
    /\ UNCHANGED <<script, sameDir, fs, launched, waited>>
    /\ UNCHANGED <<uiVars, chatVars, apiVars>>

\* Check if virtual environment exists
CheckVenv ==
    /\ scriptPc = "checkVenv"
    /\ IF ~Exists(TestDir(script), ActivationScript(script))
       THEN ExitWithError("ERROR venv")
       ELSE /\ scriptPc' = IF script = "ps1" THEN "checkNodeModules"
                                              ELSE "startBackend"
            /\ UNCHANGED <<printed, exitCode>>
    /\ UNCHANGED <<script, sameDir, fs, launched, waited>>
    /\ UNCHANGED <<uiVars, chatVars, apiVars>>

\* start.ps1 only: Check if node_modules exists
CheckNodeModules ==
    /\ scriptPc = "checkNodeModules"
    /\ printed' = IF ~Exists("script", "node_modules")
                  THEN printed \cup {"WARNING node_modules"}
                  ELSE printed
    /\ scriptPc' = "startBackend"
    /\ UNCHANGED <<script, sameDir, fs, launched, waited, exitCode>>
    /\ UNCHANGED <<uiVars, chatVars, apiVars>>

\* start "RAG Backend" cmd /k ... / Start-Process powershell ... uvicorn
StartBackend ==
    /\ scriptPc = "startBackend"
    /\ launched' = Append(launched, "backend")
    /\ scriptPc' = "wait"
    /\ UNCHANGED <<script, sameDir, fs, waited, printed, exitCode>>
    /\ UNCHANGED <<uiVars, chatVars, apiVars>>

\* timeout /t 3 /nobreak / Start-Sleep -Seconds 3: one second passes
Sleep ==
    /\ scriptPc = "wait"
    /\ waited < WaitSeconds
    /\ waited' = waited + 1
    /\ UNCHANGED <<script, sameDir, fs, scriptPc, launched, printed, exitCode>>
    /\ UNCHANGED <<uiVars, chatVars, apiVars>>

StartFrontendAtOnce ==
    /\ scriptPc = "wait"
    /\ launched' = Append(launched, "frontend")
    /\ scriptPc' = "banner"
    /\ UNCHANGED <<script, sameDir, fs, waited, printed, exitCode>>
    /\ UNCHANGED <<uiVars, chatVars, apiVars>>

\* start "RAG Frontend" cmd /k ... / Start-Process powershell ... npm run dev
StartFrontend ==
    /\ scriptPc = "wait"
    /\ waited = WaitSeconds
    /\ launched' = Append(launched, "frontend")
    /\ scriptPc' = "banner"
    /\ UNCHANGED <<script, sameDir, fs, waited, printed, exitCode>>
    /\ UNCHANGED <<uiVars, chatVars, apiVars>>

\* the closing banner, the key press, the end of the script
Finish ==
    /\ scriptPc = "banner"
    /\ printed' = printed \cup {"Both servers are starting!"}
    /\ exitCode' = "0"
    /\ scriptPc' = "exited"
    /\ UNCHANGED <<script, sameDir, fs, launched, waited>>
    /\ UNCHANGED <<uiVars, chatVars, apiVars>>

-----------------------------------------------------------------------------
(* Specifications *)

\* The page: selecting and deleting in the sidebar, uploading a new version
\* of a listed document, asking one question.
PageUploads == {B_MD}
PageInputs == {<<>>, <<"h">>}

Next ==
    \/ \E c \in listCalls, ok \in BOOLEAN : ListResponse(c, ok)
    \/ \E f \in documents : handleSelect(f)
    \/ \E f \in documents : Cardinality(deletes) < MaxDeletes /\ handleDelete(f)
    \/ \E d \in deletes, ok \in BOOLEAN : DeleteResponse(d, ok)
    \/ \E d \in deletes, ok \in BOOLEAN : DeleteFinish(d, ok)
    \/ ToggleUploader
    \/ \E f \in PageUploads, via \in {"input", "drop"} :
          uploadsStarted < MaxPageUploads /\ handleFile(f, via)
    \/ \E u \in uploadsInFlight, ok \in BOOLEAN : UploadResponse(u, ok)
    \/ TimerFire
    \/ \E v \in PageInputs : TypeInput(v)
    \/ handleSubmit

Spec == Init /\ [][Next]_vars

\* The uploader: every kind of file name, the timers, the remounts and the
\* reloading of the list.
UploadNext ==
    \/ ClickRefresh
    \/ ToggleUploader
    \/ \E f \in UploadNames, via \in {"input", "drop"} :
          uploadsStarted < MaxUploads /\ handleFile(f, via)
    \/ \E u \in uploadsInFlight, ok \in BOOLEAN : UploadResponse(u, ok)
    \/ TimerFire
    \/ \E c \in listCalls, ok \in BOOLEAN : ListResponse(c, ok)

UploadSpec == Init /\ [][UploadNext]_vars

\* Timers fire and upload requests are answered.
FairUploadSpec ==
    /\ UploadSpec
    /\ WF_vars(TimerFire)
    /\ WF_vars(\E u \in uploadsInFlight, ok \in BOOLEAN : UploadResponse(u, ok))

\* The chat: queries and their event streams.
ChatNext ==
    \/ \E v \in Inputs : TypeInput(v)
    \/ handleSubmit
    \/ \E data \in Events : StreamEvent(data)
    \/ StreamDone
    \/ \E t \in Throws : StreamThrow(t)

ChatSpec == Init /\ [][ChatNext]_vars

\* The API client: calls, responses and the reading of a stream.
ApiNext ==
    \/ \E m \in Methods, f \in DeleteArgs : ApiCall(m, f)
    \/ FetchReject
    \/ \E ok \in BOOLEAN, json \in JsonBodies, hasBody \in BOOLEAN,
          stream \in StreamBodies : FetchResolve(ok, json, hasBody, stream)
    \/ \E n \in 1..Len(apiBody) : ReadChunk(n)
    \/ ReadDone

ApiSpec == Init /\ [][ApiNext]_vars

\* The launchers: one run of start.bat or start.ps1.
ScriptNext ==
    \/ CheckEnv
    \/ CheckVenv
    \/ CheckNodeModules
    \/ StartBackend
    \/ Sleep
    \/ StartFrontend
    \/ Finish

ScriptSpec == LaunchInit /\ [][ScriptNext]_vars

\* A launcher that is running goes on to its next statement.
FairScriptSpec == ScriptSpec /\ WF_vars(ScriptNext)

-----------------------------------------------------------------------------
(* Properties *)

Last(seq) == seq[Len(seq)]

\* the concatenation of the payloads of the events of one type, in order
RECURSIVE ConcatPayloads(_, _)
ConcatPayloads(events, type) ==
    IF events = <<>> THEN <<>>
    ELSE (IF Head(events).type = type THEN Head(events).payload ELSE <<>>)
           \o ConcatPayloads(Tail(events), type)

EventsOfType(events, type) == {i \in 1..Len(events) : events[i].type = type}

\* C1: the document highlighted in the sidebar is the page's
\* selectedDocument in every reachable state, and every submitted query
\* carries the document highlighted at submit time as its filename.
C1_HighlightIsFilter ==
    /\ selectedDoc = selectedDocument
    /\ \A i \in 1..Len(sentQueries) :
          sentQueries[i].filename = sentQueries[i].highlighted

\* C2: when a stream delivered a 'sources' event and ended without error,
\* the final assistant message holds the sources of that event, wherever the
\* event came among the chunks.
C2_SourcesShown ==
    (streamEnd.kind = "done" /\ Cardinality(EventsOfType(received, "sources")) = 1)
      => \A i \in EventsOfType(received, "sources") :
            Last(messages).sources = received[i].payload

\* a 'chunk' event is processed in this step
ChunkStep ==
    /\ Len(received') = Len(received) + 1
    /\ Last(received').type = "chunk"

\* C3: while a query is in flight the last message is its assistant message
\* and holds the concatenation, in arrival order, of the chunks received so
\* far; processing a chunk changes no other message.
C3_StreamedAnswer ==
    /\ [](isLoading =>
            /\ Len(messages) = 2 * Len(sentQueries)
            /\ Last(messages).role = "assistant"
            /\ Last(messages).content = ConcatPayloads(received, "chunk"))
    /\ [][ChunkStep =>
            /\ Len(messages') = Len(messages)
            /\ SubSeq(messages', 1, Len(messages) - 1)
                 = SubSeq(messages, 1, Len(messages) - 1)]_vars

C3_Witness ==
    /\ isLoading
    /\ Len(messages) = 4
    /\ Len(received) = 2
    /\ received[1].type = "chunk" /\ received[1].payload = <<"b">>
    /\ received[2].type = "chunk" /\ received[2].payload = <<"a">>
    /\ Last(messages).content = <<"b", "a">>

\* the file types the documentation lists
SupportedTypes ==
    { <<"p", "d", "f">>, <<"d", "o", "c", "x">>, <<"d", "o", "c">>, <<"m", "d">>,
      <<"m", "a", "r", "k", "d", "o", "w", "n">>, <<"t", "x", "t">> }

\* C4: handleFile given a file whose extension (the lower-cased text after
\* the last '.') is not a supported type sets an error status, sends no
\* upload request, leaves uploading as it is and schedules no
\* onUploadSuccess.
C4_UnsupportedRejected ==
    [][\A f \in UploadNames, via \in {"input", "drop"} :
          (handleFile(f, via) /\ toLowerCase(SplitPop(f)) \notin SupportedTypes)
            => /\ uploadStatus' = "error"
               /\ UNCHANGED <<uploadsInFlight, uploadsStarted, uploading,
                              pendingTimers, uploadsSucceeded, refreshKey,
                              showUploader, serverDocs>>]_vars

C4_Witness ==
    /\ showUploader
    /\ uploadStatus = "error"
    /\ uploadsStarted = 0
    /\ ~uploading

\* the name ends with '.' followed by a supported type, in any case
EndsWithSupportedType(name) ==
    \E t \in SupportedTypes :
        /\ Len(name) >= Len(t) + 1
        /\ toLowerCase(SubSeq(name, Len(name) - Len(t), Len(name))) = <<".">> \o t

\* C5: an upload request is sent only for a file whose name ends with '.'
\* and a supported type; a name without any '.' is never uploaded.
C5_OnlySupportedUploaded ==
    \A u \in uploadsInFlight : EndsWithSupportedType(u.file)

\* the running handleSubmit fails in this step
FailStep == isLoading /\ streamEnd'.kind = "error"

\* C6: when a streaming query fails, before or after some chunks, exactly the
\* assistant message of that query becomes the error text with no sources;
\* the user's question and every earlier message stay as they were.
C6_FailureShown ==
    [][FailStep =>
          /\ Len(messages) = 2 * Len(sentQueries)
          /\ Len(messages') = Len(messages)
          /\ SubSeq(messages', 1, Len(messages) - 1)
               = SubSeq(messages, 1, Len(messages) - 1)
          /\ messages'[Len(messages) - 1] = UserMessage(Last(sentQueries).query)
          /\ Last(messages') = AssistantMessage(ErrorText(streamEnd'.message), <<>>)
          /\ Len(received') > Len(received)
               => streamEnd'.message = Last(received').payload
          /\ ~isLoading']_vars

C6_Witness ==
    /\ streamEnd.kind = "error"
    /\ ~isLoading
    /\ Len(messages) = 4
    /\ Len(received) = 2
    /\ received[1].type = "chunk"
    /\ received[2].type = "error"
    /\ messages[3].role = "user"
    /\ Last(messages).content = ErrorText(received[2].payload)

\* the methods the claim says test response.ok
CheckedMethods == {"uploadDocument", "query", "queryStream", "listDocuments",
                   "deleteDocument"}

\* C7 as stated: a response that is not ok makes each of the five methods
\* throw an error whose message is the body's detail, or the default when
\* detail is absent, without returning or yielding; an ok response never
\* throws that error; only healthCheck returns the body of a response that
\* is not ok.
C7_NotOkThrowsDetail ==
    /\ (apiMethod \in CheckedMethods /\ apiResponse.status = "notok")
         => /\ apiOutcome = Threw(IF apiResponse.detail = Undefined
                                  THEN DefaultMessage(apiMethod)
                                  ELSE apiResponse.detail)
            /\ apiYielded = <<>>
    /\ (apiMethod \in CheckedMethods /\ apiResponse.status = "ok"
          /\ apiOutcome.kind = "threw")
         => apiOutcome.value # <<DefaultMessage(apiMethod)>>
    /\ (apiResponse.status = "notok" /\ apiOutcome.kind = "returned")
         => apiMethod = "healthCheck"

\* C7 as amended: the message is the body's detail when detail is a
\* non-empty text and the default when detail is absent or empty; a body
\* that is not JSON makes the call fail with the parse error.
C7_NotOkThrows ==
    /\ (apiMethod \in CheckedMethods /\ apiResponse.status = "notok")
         => /\ apiOutcome.kind = "threw"
            /\ apiYielded = <<>>
            /\ apiResponse.valid =>
                 apiOutcome.value =
                   <<IF apiResponse.detail \in {Undefined, ""}
                     THEN DefaultMessage(apiMethod)
                     ELSE apiResponse.detail>>
            /\ ~apiResponse.valid => apiOutcome.value = <<"Unexpected token">>
    /\ (apiMethod \in CheckedMethods /\ apiResponse.status = "ok"
          /\ apiOutcome.kind = "threw")
         => /\ apiOutcome.value # <<DefaultMessage(apiMethod)>>
            /\ apiOutcome.value # <<apiResponse.detail>>
    /\ (apiResponse.status = "notok" /\ apiOutcome.kind = "returned")
         => apiMethod = "healthCheck"
    /\ (apiMethod = "healthCheck" /\ apiResponse.status = "notok"
          /\ apiResponse.valid)
         => apiOutcome.kind = "returned"

C7_Witness ==
    /\ apiMethod = "deleteDocument"
    /\ apiResponse.status = "notok"
    /\ apiResponse.valid
    /\ apiResponse.detail = ""
    /\ apiOutcome = Threw("Failed to delete document")
    /\ Len(httpLog) = 2

\* C8: every successful upload leads, once its timer fires, to exactly one
\* handleUploadSuccess: the uploader panel is closed, refreshKey grows by 1
\* and the remounted DocumentManager has a listDocuments request under way.
\* refreshKey counts the successful uploads whose timer has fired; a rejected
\* or failed upload changes neither refreshKey nor showUploader.
C8_ReloadAfterUpload ==
    /\ [](refreshKey + pendingTimers = uploadsSucceeded)
    /\ [][refreshKey' # refreshKey =>
            /\ refreshKey' = refreshKey + 1
            /\ pendingTimers' = pendingTimers - 1
            /\ ~showUploader'
            /\ [inst |-> refreshKey'] \in listCalls'
            /\ loading']_vars
    /\ [][(uploadsSucceeded' = uploadsSucceeded
            /\ \/ uploadStatus' = "error" /\ uploadStatus # "error"
               \/ Cardinality(uploadsInFlight') < Cardinality(uploadsInFlight))
          => UNCHANGED <<refreshKey, showUploader, pendingTimers>>]_vars
    /\ \A k \in 1..MaxUploads :
          (uploadsSucceeded >= k) ~> (refreshKey >= k)

C8_Witness ==
    /\ uploadsSucceeded = 2
    /\ refreshKey = 2
    /\ pendingTimers = 0
    /\ ~showUploader
    /\ [inst |-> 2] \in listCalls

\* both tests of the launcher succeed on the paths it tests
ChecksPass ==
    /\ Exists(TestDir(script), ".env")
    /\ Exists(TestDir(script), ActivationScript(script))

\* the .env file and the activation script of the rag-system directory exist
SetupComplete ==
    /\ Exists("script", ".env")
    /\ Exists("script", ActivationScript(script))

\* C9: no server is started unless the .env file and the venv activation
\* script of the rag-system directory both exist; when one is missing the
\* launcher prints an error and exits with code 1 with no server started.
C9_ChecksGuardLaunch ==
    /\ launched # <<>> => SetupComplete
    /\ (scriptPc = "exited" /\ ~SetupComplete)
         => /\ exitCode = "1"
            /\ launched = <<>>
            /\ printed \cap {"ERROR .env", "ERROR venv"} # {}

\* C10: when the checks pass each launcher opens exactly two server
\* processes, the backend first and the frontend after the 3-second wait
\* that follows the launch of the backend; in start.ps1 a missing
\* node_modules directory only adds a warning.
C10_TwoServersInOrder ==
    /\ [](/\ Len(launched) <= 2
          /\ launched # <<>> => (ChecksPass /\ launched[1] = "backend")
          /\ Len(launched) = 2 => (launched[2] = "frontend" /\ waited = WaitSeconds)
          /\ (scriptPc = "exited" /\ ChecksPass)
               => (launched = <<"backend", "frontend">> /\ exitCode = "0")
          /\ (scriptPc = "exited" /\ ChecksPass /\ script = "ps1"
                /\ ~Exists("script", "node_modules"))
               => printed = {"WARNING node_modules", "Both servers are starting!"})
    /\ [][launched' # launched => Len(launched') = Len(launched) + 1]_vars
    /\ ChecksPass ~> (launched = <<"backend", "frontend">>)

C10_Witness ==
    /\ script = "ps1"
    /\ ~Exists("script", "node_modules")
    /\ "WARNING node_modules" \in printed
    /\ launched = <<"backend", "frontend">>
    /\ waited = WaitSeconds
    /\ exitCode = "0"


\* the endpoint the README documents for each method of the client; the
\* path of DELETE /documents/{filename} is the prefix before the name
DocumentedEndpoint(m) ==
    CASE m = "uploadDocument" -> [verb |-> "POST", path |-> <<"/upload">>]
      [] m = "query" -> [verb |-> "POST", path |-> <<"/query">>]
      [] m = "queryStream" -> [verb |-> "POST", path |-> <<"/query/stream">>]
      [] m = "listDocuments" -> [verb |-> "GET", path |-> <<"/documents">>]
      [] m = "deleteDocument" -> [verb |-> "DELETE", path |-> <<"/documents/">>]
      [] m = "healthCheck" -> [verb |-> "GET", path |-> <<"/">>]

\* the characters that may not stand unescaped in a path segment
ReservedChars == {" ", "/", "?", "%"}

\* the text a percent escape stands for
DecodeChar(c) ==
    CASE c = "%20" -> " " [] c = "%2F" -> "/" [] c = "%3F" -> "?"
      [] c = "%25" -> "%" [] OTHER -> c

decodeURIComponent(enc) == [i \in 1..Len(enc) |-> DecodeChar(enc[i])]

\* request r is the documented request of method m called with filename arg
IsDocumentedRequest(r, m, arg) ==
    /\ r.verb = DocumentedEndpoint(m).verb
    /\ IF m = "deleteDocument"
       THEN /\ Len(r.path) = 1 + Len(arg)
            /\ r.path[1] = "/documents/"
            /\ \A i \in 2..Len(r.path) : r.path[i] \notin ReservedChars
            /\ decodeURIComponent(Tail(r.path)) = arg
       ELSE r.path = DocumentedEndpoint(m).path

\* a step in which a method of the client is called
CallStep == apiPhase # "fetching" /\ apiPhase' = "fetching"

\* C11: every call of a method of APIClient sends exactly one HTTP request,
\* the one documented for the method (DELETE /documents/ followed by the
\* URL-encoded filename for deleteDocument), and no other step sends a
\* request: not after a failure, not after a success; no request goes to
\* the WS /ws/query endpoint.
C11_OneRequestPerCall ==
    /\ [](\A i \in 1..Len(httpLog) :
             /\ httpLog[i].verb \in {"GET", "POST", "DELETE"}
             /\ httpLog[i].path # <<"/ws/query">>)
    /\ [](apiPhase # "idle" =>
             IsDocumentedRequest(httpLog[Len(httpLog)], apiMethod, apiArg))
    /\ [][/\ CallStep =>
               /\ Len(httpLog') = Len(httpLog) + 1
               /\ SubSeq(httpLog', 1, Len(httpLog)) = httpLog
               /\ IsDocumentedRequest(httpLog'[Len(httpLog')], apiMethod', apiArg')
          /\ ~CallStep => httpLog' = httpLog]_vars

C11_Witness ==
    /\ apiMethod = "deleteDocument"
    /\ apiArg = <<"a", "/", "b">>
    /\ apiOutcome = Threw("Failed to fetch")
    /\ Len(httpLog) = 2
    /\ httpLog[1] = [verb |-> "POST", path |-> <<"/query/stream">>]
    /\ httpLog[2] = [verb |-> "DELETE", path |-> <<"/documents/", "a", "%2F", "b">>]


\* the positions of the newlines of a body
LineEnds(s) == {i \in 1..Len(s) : s[i] = NL}

\* the line of body s that the newline at position e ends
LineAt(s, e) ==
    LET before == {j \in LineEnds(s) : j < e}
        start == IF before = {} THEN 1
                 ELSE 1 + CHOOSE j \in before : \A k \in before : k <= j
    IN SubSeq(s, start, e - 1)

\* the text after 'data: ' of a line
DataText(line) == SubSeq(line, Len(DataPrefix) + 1, Len(line))

\* the newlines of s that end a line starting with 'data: '
DataLineEnds(s) == {e \in LineEnds(s) : StartsWithData(LineAt(s, e))}

\* the first 'data: ' line of s whose text is not JSON ends here; beyond
\* the body when there is none
FirstBad(s) ==
    LET bad == {e \in DataLineEnds(s) : ~IsJSON(DataText(LineAt(s, e)))}
    IN IF bad = {} THEN Len(s) + 1
       ELSE CHOOSE e \in bad : \A k \in bad : e <= k

\* the events of the 'data: ' lines of s that end within its first n
\* characters, in body order
RECURSIVE EventsUpTo(_, _)
EventsUpTo(s, n) ==
    IF n = 0 THEN <<>>
    ELSE EventsUpTo(s, n - 1)
           \o (IF n \in DataLineEnds(s) THEN DataText(LineAt(s, n)) ELSE <<>>)

NewlineTerminated(s) == s = <<>> \/ s[Len(s)] = NL

\* C12: for a response body made of newline-terminated lines, whatever the
\* sizes of the successive reads, queryStream has yielded exactly the events
\* of the 'data: ' lines that end in the part read so far, in body order and
\* once each; it returns only when the whole body is read, having yielded
\* one event for every 'data: ' line; a 'data: ' line that is not JSON makes
\* it throw after the events of the lines before it.
C12_CutIndependent ==
    (/\ apiMethod = "queryStream"
     /\ apiResponse.status = "ok"
     /\ apiResponse.hasBody
     /\ NewlineTerminated(apiResponse.body))
      => LET body == apiResponse.body
             read == Len(body) - Len(apiBody)
             bad == FirstBad(body)
         IN /\ read < bad =>
                 /\ apiYielded = EventsUpTo(body, read)
                 /\ apiOutcome.kind # "threw"
            /\ read >= bad =>
                 /\ apiYielded = EventsUpTo(body, bad - 1)
                 /\ apiOutcome = Threw("Unexpected token")
            /\ apiOutcome.kind = "returned" =>
                 /\ apiBody = <<>>
                 /\ apiYielded = EventsUpTo(body, Len(body))
                 /\ Len(apiYielded) = Cardinality(DataLineEnds(body))

\* a read ended inside the 'data: ' prefix of the second line
C12_Witness ==
    /\ apiMethod = "queryStream"
    /\ apiPhase = "reading"
    /\ apiResponse.body = DataPrefix \o <<"J", NL>> \o DataPrefix \o <<"K", NL>>
    /\ apiBuffer = <<"d", "a">>
    /\ apiYielded = <<"J">>
    /\ apiBody = <<"t", "a", ":", " ", "K", NL>>


\* the file names the sidebar can list
ListedNames == InitDocs \cup PageUploads

\* C13: a click on document f in the sidebar makes f the selection when f
\* was not selected and clears the selection when f was selected; the page
\* receives through onDocumentSelect exactly the value stored in
\* selectedDoc; at most one listed document is the selected one.
C13_SelectToggles ==
    /\ [](Cardinality({f \in documents : f = selectedDoc}) <= 1)
    /\ [][\A f \in ListedNames :
            handleSelect(f) =>
              /\ selectedDoc = f => selectedDoc' = None
              /\ selectedDoc # f => selectedDoc' = f
              /\ selectedDocument' = selectedDoc']_vars

\* a.pdf was selected when the first question was asked and has been
\* clicked again since: nothing was deleted and nothing remounted
C13_Witness ==
    /\ Len(sentQueries) >= 1
    /\ sentQueries[1].filename = A_PDF
    /\ sentQueries[1].highlighted = A_PDF
    /\ selectedDoc = None
    /\ selectedDocument = None
    /\ refreshKey = 0
    /\ serverDocs = InitDocs
    /\ deletes = {}


\* a step in which the handleDelete call d, whose deleteDocument succeeded,
\* finishes
DeleteFinished(d) == d \in deletes /\ d.phase = "reloading" /\ d \notin deletes'

\* C14: when handleDelete(f) finishes after deleteDocument(f) succeeded, f
\* is neither the document selected in DocumentManager nor the page's
\* selectedDocument, also when f was selected while the request was in
\* flight or DocumentManager was remounted after f was selected.
C14_DeleteClearsSelection ==
    [][\A d \in deletes :
         DeleteFinished(d) =>
           /\ selectedDoc' # d.file
           /\ selectedDocument' # d.file]_vars


\* a step that appends a message or hands a request to queryStream
SubmitStep == sentQueries' # sentQueries \/ Len(messages') > Len(messages)

\* C15: a question is sent, and messages are appended, only by a submit made
\* while no query is running and the input is not blank; such a submit sends
\* one request and starts the one running query.  A query is running
\* exactly while isLoading is true, so at most one is in flight, and every
\* request sent accounts for two messages: a submit while loading or with a
\* blank input added none.
C15_OneQueryInFlight ==
    /\ [](isLoading <=> (sentQueries # <<>> /\ streamEnd.kind = "none"))
    /\ [](Len(messages) = 2 * Len(sentQueries))
    /\ [](isLoading => input = <<>>)
    /\ [][SubmitStep =>
            /\ ~isLoading
            /\ trim(input) # <<>>
            /\ isLoading'
            /\ Len(sentQueries') = Len(sentQueries) + 1
            /\ Len(messages') = Len(messages) + 2]_vars

\* the second question is being answered: one event has arrived, and the
\* first question's messages are still the only other ones
C15_Witness ==
    /\ isLoading
    /\ Len(sentQueries) = 2
    /\ Len(messages) = 4
    /\ Len(received) = 1
    /\ streamEnd.kind = "none"

=============================================================================
